---- MODULE Spec2Model ----
(***************************************************************************)
(* Model of prepare_proofread_chunks.py: one run of PDFChunker, from the   *)
(* constructed object to sys.exit.                                         *)
(*                                                                         *)
(* A string is kept run-length encoded: a sequence of runs, each a number  *)
(* of whitespace characters or a number of non-whitespace characters.      *)
(* len, strip and split act on that encoding as they act on the string.    *)
(***************************************************************************)
EXTENDS Integers, Sequences, FiniteSets, TLC

VARIABLES pdf, dirs, max_words, max_pages, pc, reader, stats, page_num, pages_content,
          lastCall, chunks, chunk_index, files, log_file, success,
          exit_status

vars == <<pdf, dirs, max_words, max_pages, pc, reader, stats, page_num, pages_content,
          lastCall, chunks, chunk_index, files, log_file, success,
          exit_status>>

\* ------------------------------------------------------------ bounds ----
\* Largest page count of a document.
MaxDocPages == 3

\* Largest value of --max-words and of --max-pages.
MaxLimit == 3

\* Largest of the small chunk ordinals and page numbers given to
\* write_chunk_file on its own.
MaxNameNumber == 3

\* Largest number of pages given to create_chunks on its own.
MaxPackPages == 4

\* --------------------------------------------------------- constants ----
\* The defaults of --max-words and --max-pages.
DefaultMaxWords == 3500
DefaultMaxPages == 10

\* The minimum usable length of the stripped extracted text.
MinUsableChars == 40

\* The width of the zero-padded numbers of a chunk filename (03d).
PadWidth == 3

\* ----------------------------------------------------------- strings ----
W(n) == [ws |-> TRUE, n |-> n]
X(n) == [ws |-> FALSE, n |-> n]

EmptyStr == <<>>

RECURSIVE StrLen(_)
StrLen(s) == IF s = <<>> THEN 0 ELSE Head(s).n + StrLen(Tail(s))

RECURSIVE lstrip(_)
lstrip(s) ==
    IF s = <<>> THEN <<>>
    ELSE IF Head(s).ws THEN lstrip(Tail(s)) ELSE s

RECURSIVE rstrip(_)
rstrip(s) ==
    IF s = <<>> THEN <<>>
    ELSE IF s[Len(s)].ws THEN rstrip(SubSeq(s, 1, Len(s) - 1)) ELSE s

strip(s) == rstrip(lstrip(s))

\* len(s.split()): the number of maximal groups of non-whitespace, counted
\* at the run that opens each group (inWord: a group is open before s).
SplitCount(s, inWord) ==
    Cardinality({i \in 1..Len(s) :
                    /\ ~s[i].ws
                    /\ IF i = 1 THEN ~inWord ELSE s[i - 1].ws})

\* ------------------------------------------------------- PageContent ----
PageContent(pn, text, source_type) ==
    [page_num |-> pn, text |-> text, source_type |-> source_type]

word_count(page) == SplitCount(page.text, FALSE)

\* ----------------------------------------------------- collaborators ----
\* What pdf_reader.pages[i].extract_text() does: raises, returns None, or
\* returns a string.
ExtractRaise == [kind |-> "raise", text |-> EmptyStr]
ExtractNone == [kind |-> "None", text |-> EmptyStr]
ExtractText(s) == [kind |-> "text", text |-> s]

BlankLong == <<W(MinUsableChars)>>
PaddedShort == <<W(1), X(MinUsableChars - 1), W(1)>>
PaddedExact == <<W(1), X(MinUsableChars)>>
ThreeWords == <<X(MinUsableChars), W(1), X(1), W(2), X(1), W(1)>>

ExtractOutcomes ==
    {ExtractRaise, ExtractNone, ExtractText(BlankLong),
     ExtractText(PaddedShort), ExtractText(PaddedExact),
     ExtractText(ThreeWords)}

\* What convert_from_path and image_to_string do for one _ocr_page call.
OcrOutcome(raster, recog, text) ==
    [raster |-> raster, recog |-> recog, text |-> text]

OcrOutcomes ==
    {OcrOutcome("raise", "unused", EmptyStr),
     OcrOutcome("empty", "unused", EmptyStr),
     OcrOutcome("image", "raise", EmptyStr),
     OcrOutcome("image", "text", <<W(1)>>),
     OcrOutcome("image", "text", <<W(1), X(1), W(1), X(2)>>)}

\* --------------------------------------------------------- _ocr_page ----
OcrReturn(s) == [raised |-> FALSE, value |-> s]
OcrRaise == [raised |-> TRUE, value |-> EmptyStr]

_ocr_page(o) ==
    IF o.raster = "raise" THEN OcrRaise
    ELSE IF o.raster = "empty" THEN OcrReturn(EmptyStr)
    ELSE IF o.recog = "raise" THEN OcrRaise
    ELSE OcrReturn(strip(o.text))

\* -------------------------------------------- extract_text_from_page ----
\* The test made on the text as extracted, before trimming.
enough_text_untrimmed(extracted_text) == StrLen(extracted_text) >= MinUsableChars

\* The test of line 97.
enough_text(extracted_text) == StrLen(strip(extracted_text)) >= MinUsableChars

\* The record built from the text as extracted, before trimming.
text_page_untrimmed(display_page_num, extracted_text) ==
    PageContent(display_page_num, extracted_text, "TEXT")

\* The record returned at line 99.
text_page(display_page_num, extracted_text) ==
    PageContent(display_page_num, strip(extracted_text), "TEXT")

\* The handler that records a failed recognition as an OCR page.
ocr_fallback_swallow(display_page_num, o, used) ==
    [page |-> PageContent(display_page_num, _ocr_page(o).value, "OCR"),
     ocr |-> Append(used, o)]

\* The except handler, lines 106-114: one more _ocr_page call.
ocr_fallback(display_page_num, o, used) ==
    IF _ocr_page(o).raised
    THEN [page |-> PageContent(display_page_num, EmptyStr, "ERROR"),
          ocr |-> Append(used, o)]
    ELSE [page |-> PageContent(display_page_num, _ocr_page(o).value, "OCR"),
          ocr |-> Append(used, o)]

\* The page number left 0-based.
display_num_zero_based(pn) == pn

\* The page number shown to people, line 89.
display_num(pn) == pn + 1

\* The text line 94 leaves in extracted_text.
text_or_empty(ex) == IF ex.kind = "None" THEN EmptyStr ELSE ex.text

\* The code reaches the _ocr_page call of line 103 or, when extraction
\* raised, the one of line 110.
first_ocr_call(ex) == ex.kind = "raise" \/ ~enough_text(text_or_empty(ex))

\* The code reaches the _ocr_page call of line 110 after the one of line 103
\* raised.
second_ocr_call(ex, o1) ==
    /\ ex.kind # "raise"
    /\ ~enough_text(text_or_empty(ex))
    /\ _ocr_page(o1).raised

\* The collaborators act only in the _ocr_page calls the code makes.
NotCalled == OcrOutcome("unused", "unused", EmptyStr)
OcrCalls(made) == IF made THEN OcrOutcomes ELSE {NotCalled}

\* ex is what extraction does, o1 and o2 what the first and the second
\* _ocr_page call do, when the code makes them.  The result holds the page
\* record and the _ocr_page calls made, in order.
extract_text_from_page(pn, ex, o1, o2) ==
    LET display_page_num == display_num(pn)
        extracted_text == text_or_empty(ex)
    IN  IF ex.kind = "raise"
        THEN ocr_fallback(display_page_num, o1, <<>>)
        ELSE IF enough_text(extracted_text)
        THEN [page |-> text_page(display_page_num, extracted_text),
              ocr |-> <<>>]
        ELSE IF _ocr_page(o1).raised
        THEN ocr_fallback(display_page_num, o2, <<o1>>)
        ELSE [page |-> PageContent(display_page_num, _ocr_page(o1).value, "OCR"),
              ocr |-> <<o1>>]

\* ----------------------------------------------------- create_chunks ----
\* The word test that leaves out the page about to be added.
would_exceed_words_before(current_word_count, page_words, mw) ==
    current_word_count > mw

\* The word test that also closes a chunk the page would fill exactly.
would_exceed_words_or_reach(current_word_count, page_words, mw) ==
    (current_word_count + page_words) >= mw

would_exceed_words(current_word_count, page_words, mw) ==
    (current_word_count + page_words) > mw

\* The page test that closes the chunk one page late.
would_exceed_pages_late(current_chunk, mp) == Len(current_chunk) > mp

would_exceed_pages(current_chunk, mp) == Len(current_chunk) >= mp

\* The iteration that tests the limits without asking whether the open
\* chunk holds a page.
chunk_step_unguarded(st, page_content, mw, mp) ==
    LET page_words == word_count(page_content)
        close == \/ would_exceed_words(st.current_word_count, page_words, mw)
                 \/ would_exceed_pages(st.current_chunk, mp)
        opened == IF close
                  THEN [chunks |-> Append(st.chunks, st.current_chunk),
                        current_chunk |-> <<>>,
                        current_word_count |-> 0]
                  ELSE st
    IN  [chunks |-> opened.chunks,
         current_chunk |-> Append(opened.current_chunk, page_content),
         current_word_count |-> opened.current_word_count + page_words]

\* One iteration of the for loop, lines 196-212.
chunk_step(st, page_content, mw, mp) ==
    LET page_words == word_count(page_content)
        close == /\ st.current_chunk # <<>>
                 /\ \/ would_exceed_words(st.current_word_count, page_words, mw)
                    \/ would_exceed_pages(st.current_chunk, mp)
        opened == IF close
                  THEN [chunks |-> Append(st.chunks, st.current_chunk),
                        current_chunk |-> <<>>,
                        current_word_count |-> 0]
                  ELSE st
    IN  [chunks |-> opened.chunks,
         current_chunk |-> Append(opened.current_chunk, page_content),
         current_word_count |-> opened.current_word_count + page_words]

RECURSIVE chunk_scan(_, _, _, _)
chunk_scan(st, pages, mw, mp) ==
    IF pages = <<>> THEN st
    ELSE chunk_scan(chunk_step(st, Head(pages), mw, mp), Tail(pages), mw, mp)

\* The return that forgets the open chunk.
last_chunk_forgotten(st) == st.chunks

\* Lines 214-216.
last_chunk(st) ==
    IF st.current_chunk # <<>> THEN Append(st.chunks, st.current_chunk)
    ELSE st.chunks

create_chunks(pages, mw, mp) ==
    last_chunk(chunk_scan([chunks |-> <<>>, current_chunk |-> <<>>,
                           current_word_count |-> 0], pages, mw, mp))

\* -------------------------------------------------- write_chunk_file ----
RECURSIVE PageMarkers(_)
PageMarkers(chunk_pages) ==
    IF chunk_pages = <<>> THEN <<>>
    ELSE <<Head(chunk_pages).page_num>> \o PageMarkers(Tail(chunk_pages))

\* str(n) for n >= 0, one character to an element.
DigitChar(d) == <<"0", "1", "2", "3", "4", "5", "6", "7", "8", "9">>[d + 1]

RECURSIVE DecimalDigits(_)
DecimalDigits(n) ==
    IF n < 10 THEN <<DigitChar(n)>>
    ELSE DecimalDigits(n \div 10) \o <<DigitChar(n % 10)>>

RECURSIVE ZeroPad(_, _)
ZeroPad(ds, width) ==
    IF Len(ds) >= width THEN ds ELSE ZeroPad(<<"0">> \o ds, width)

\* The format 03d.
Format03d(n) == ZeroPad(DecimalDigits(n), PadWidth)

\* The filename that leaves the end page out.
chunk_filename_start_only(ci, start_page, end_page) ==
    <<"chunk_">> \o Format03d(ci + 1) \o <<"_p">> \o Format03d(start_page)
        \o <<".md">>

\* The filename of line 231.
chunk_filename(ci, start_page, end_page) ==
    <<"chunk_">> \o Format03d(ci + 1) \o <<"_p">> \o Format03d(start_page)
        \o <<"-p">> \o Format03d(end_page) \o <<".md">>

\* The file whose end page is read from the first page of the chunk.
write_chunk_file_first_as_end(ci, chunk_pages) ==
    [filename |-> chunk_filename(ci, chunk_pages[1].page_num,
                                 chunk_pages[1].page_num),
     chunk_id |-> ci + 1,
     start_page |-> chunk_pages[1].page_num,
     end_page |-> chunk_pages[1].page_num,
     markers |-> PageMarkers(chunk_pages)]

\* The file of lines 228-258: its name, the CHUNK_ID and PAGES of its
\* metadata, and the page markers of its text, in order.
write_chunk_file(ci, chunk_pages) ==
    [filename |-> chunk_filename(ci, chunk_pages[1].page_num,
                                 chunk_pages[Len(chunk_pages)].page_num),
     chunk_id |-> ci + 1,
     start_page |-> chunk_pages[1].page_num,
     end_page |-> chunk_pages[Len(chunk_pages)].page_num,
     markers |-> PageMarkers(chunk_pages)]

\* --------------------------------------------------------- write_log ----
\* The rows of a log that lists only the pages whose text was recovered.
RECURSIVE LogRows_recovered(_)
LogRows_recovered(pages) ==
    IF pages = <<>> THEN <<>>
    ELSE (IF Head(pages).source_type = "ERROR" THEN <<>>
          ELSE <<[page_num |-> Head(pages).page_num,
                  source_type |-> Head(pages).source_type]>>)
         \o LogRows_recovered(Tail(pages))

\* The data rows of lines 279-280, one for each page.
RECURSIVE LogRows(_)
LogRows(pages) ==
    IF pages = <<>> THEN <<>>
    ELSE <<[page_num |-> Head(pages).page_num,
            source_type |-> Head(pages).source_type]>> \o LogRows(Tail(pages))

\* ------------------------------------------------------ validate_pdf ----
validate_pdf(doc) ==
    IF ~doc.exists THEN FALSE
    ELSE IF ~doc.is_file THEN FALSE
    ELSE doc.parseable

\* The document at pdf_path: nothing, a directory, a file pypdf rejects,
\* or a file pypdf reads.
Documents ==
    {d \in [exists : BOOLEAN, is_file : BOOLEAN, parseable : BOOLEAN] :
        /\ d.is_file => d.exists
        /\ d.parseable => d.is_file}

\* The values argparse accepts for --max-words and --max-pages (type=int).
Limits == (0 - 1)..MaxLimit

NoCall == [extract |-> [kind |-> "none", text |-> EmptyStr], ocr |-> <<>>]

\* -------------------------------------------------------------- Init ----
\* The directories __init__ makes, lines 44-46.
OutputDirs == {"output", "output/chunks", "logs"}

\* The state when main builds the PDFChunker: the arguments are parsed, and
\* any of the output directories may be left from an earlier run.
Init ==
    /\ pdf \in Documents
    /\ dirs \in SUBSET OutputDirs
    /\ max_words \in Limits
    /\ max_pages \in Limits
    /\ pc = "construct"
    /\ reader = "unopened"
    /\ stats = [total_pages |-> 0, text_pages |-> 0, ocr_pages |-> 0,
                total_chunks |-> 0]
    /\ page_num = 0
    /\ pages_content = <<>>
    /\ lastCall = NoCall
    /\ chunks = <<>>
    /\ chunk_index = 0
    /\ files = <<>>
    /\ log_file = [written |-> FALSE, rows |-> <<>>]
    /\ success = "unset"
    /\ exit_status = 0 - 1

\* ----------------------------------------------------------- actions ----
\* __init__, lines 43-57: mkdir(parents=True, exist_ok=True) for each
\* directory, then the zeroed statistics.
Construct ==
    /\ pc = "construct"
    /\ dirs' = dirs \cup OutputDirs
    /\ stats' = [total_pages |-> 0, text_pages |-> 0, ocr_pages |-> 0,
                 total_chunks |-> 0]
    /\ pc' = "validate"
    /\ UNCHANGED <<pdf, reader, max_words, max_pages, page_num, pages_content,
                   lastCall, chunks, chunk_index, files, log_file, success,
                   exit_status>>

\* The run that goes on whatever validate_pdf returns.
Validate_unchecked ==
    /\ pc = "validate"
    /\ pc' = "open"
    /\ UNCHANGED <<pdf, dirs, reader, max_words, max_pages, stats, page_num,
                   pages_content, lastCall, chunks, chunk_index, files,
                   log_file, success, exit_status>>

\* run, lines 291-293.
Validate ==
    /\ pc = "validate"
    /\ IF validate_pdf(pdf)
       THEN pc' = "open" /\ UNCHANGED success
       ELSE pc' = "returned" /\ success' = "False"
    /\ UNCHANGED <<pdf, dirs, reader, max_words, max_pages, stats, page_num, pages_content,
                   lastCall, chunks, chunk_index, files, log_file,
                   exit_status>>

\* process_pdf, lines 161-167, and the handler of run, lines 298-300.  The
\* document may have changed since validation, so opening can still raise.
OpenPdf ==
    /\ pc = "open"
    /\ \E opens \in BOOLEAN, n \in 0..MaxDocPages :
          IF opens
          THEN /\ pc' = "extract"
               /\ reader' = "open"
               /\ stats' = [stats EXCEPT !.total_pages = n]
               /\ UNCHANGED success
          ELSE /\ pc' = "returned"
               /\ reader' = "raise"
               /\ success' = "False"
               /\ UNCHANGED stats
    /\ UNCHANGED <<pdf, dirs, max_words, max_pages, page_num, pages_content,
                   lastCall, chunks, chunk_index, files, log_file,
                   exit_status>>

\* The update that counts every page that is not TEXT as an OCR page.
update_stats_else_ocr(s, page_content) ==
    IF page_content.source_type = "TEXT"
    THEN [s EXCEPT !.text_pages = @ + 1]
    ELSE [s EXCEPT !.ocr_pages = @ + 1]

\* The statistics update of lines 175-178.
update_stats(s, page_content) ==
    IF page_content.source_type = "TEXT"
    THEN [s EXCEPT !.text_pages = @ + 1]
    ELSE IF page_content.source_type = "OCR"
    THEN [s EXCEPT !.ocr_pages = @ + 1]
    ELSE s

\* One iteration of the loop of process_pdf, lines 170-178.
ProcessPage ==
    /\ pc = "extract"
    /\ page_num < stats.total_pages
    /\ \E ex \in ExtractOutcomes :
       \E o1 \in OcrCalls(first_ocr_call(ex)) :
       \E o2 \in OcrCalls(second_ocr_call(ex, o1)) :
          LET r == extract_text_from_page(page_num, ex, o1, o2)
          IN  /\ pages_content' = Append(pages_content, r.page)
              /\ stats' = update_stats(stats, r.page)
              /\ lastCall' = [extract |-> ex, ocr |-> r.ocr]
    /\ page_num' = page_num + 1
    /\ UNCHANGED <<pdf, dirs, reader, max_words, max_pages, pc, chunks, chunk_index, files,
                   log_file, success, exit_status>>

\* The packing that takes the pages out of the list it is given.
CreateChunks_consuming ==
    /\ pc = "extract"
    /\ page_num >= stats.total_pages
    /\ lastCall' = NoCall
    /\ chunks' = create_chunks(pages_content, max_words, max_pages)
    /\ pages_content' = <<>>
    /\ stats' = [stats EXCEPT !.total_chunks = Len(chunks')]
    /\ chunk_index' = 0
    /\ pc' = "write"
    /\ UNCHANGED <<pdf, dirs, reader, max_words, max_pages, page_num, files,
                   log_file, success, exit_status>>

\* The loop ends, process_pdf returns, and run packs: lines 180, 307-308.
\* The calls of the last iteration are forgotten with the locals of
\* process_pdf.
CreateChunks ==
    /\ pc = "extract"
    /\ page_num >= stats.total_pages
    /\ lastCall' = NoCall
    /\ chunks' = create_chunks(pages_content, max_words, max_pages)
    /\ stats' = [stats EXCEPT !.total_chunks = Len(chunks')]
    /\ chunk_index' = 0
    /\ pc' = "write"
    /\ UNCHANGED <<pdf, dirs, reader, max_words, max_pages, page_num, pages_content,
                   files, log_file, success, exit_status>>

\* One iteration of the loop of run, lines 311-312.
WriteChunkFile ==
    /\ pc = "write"
    /\ chunk_index < Len(chunks)
    /\ files' = Append(files, write_chunk_file(chunk_index, chunks[chunk_index + 1]))
    /\ chunk_index' = chunk_index + 1
    /\ UNCHANGED <<pdf, dirs, reader, max_words, max_pages, pc, stats, page_num,
                   pages_content, lastCall, chunks, log_file, success,
                   exit_status>>

\* The log written while chunks are still to be written.
WriteLog_early ==
    /\ pc = "write"
    /\ log_file' = [written |-> TRUE, rows |-> LogRows(pages_content)]
    /\ pc' = "summary"
    /\ UNCHANGED <<pdf, dirs, reader, max_words, max_pages, stats, page_num,
                   pages_content, lastCall, chunks, chunk_index, files,
                   success, exit_status>>

\* run, line 315.
WriteLog ==
    /\ pc = "write"
    /\ chunk_index >= Len(chunks)
    /\ log_file' = [written |-> TRUE, rows |-> LogRows(pages_content)]
    /\ pc' = "summary"
    /\ UNCHANGED <<pdf, dirs, reader, max_words, max_pages, stats, page_num, pages_content,
                   lastCall, chunks, chunk_index, files, success, exit_status>>

\* run, lines 317-328.
Summary ==
    /\ pc = "summary"
    /\ success' = "True"
    /\ pc' = "returned"
    /\ UNCHANGED <<pdf, dirs, reader, max_words, max_pages, stats, page_num, pages_content,
                   lastCall, chunks, chunk_index, files, log_file,
                   exit_status>>

\* The exit code of sys.exit(success): True exits with 1.
exit_code_of_bool(ok) == IF ok = "True" THEN 1 ELSE 0

\* The exit code main passes to sys.exit, line 381.
exit_code(ok) == IF ok = "True" THEN 0 ELSE 1

SysExit ==
    /\ pc = "returned"
    /\ exit_status' = exit_code(success)
    /\ pc' = "exited"
    /\ UNCHANGED <<pdf, dirs, reader, max_words, max_pages, stats, page_num, pages_content,
                   lastCall, chunks, chunk_index, files, log_file, success>>

Next ==
    \/ Construct
    \/ Validate
    \/ OpenPdf
    \/ ProcessPage
    \/ CreateChunks
    \/ WriteChunkFile
    \/ WriteLog
    \/ Summary
    \/ SysExit

Spec == Init /\ [][Next]_vars

\* ---------------------------------------------- create_chunks alone ----
\* A text of k words.
WordsText(k) ==
    IF k = 0 THEN EmptyStr
    ELSE [i \in 1..(2 * k - 1) |-> IF i % 2 = 1 THEN X(1) ELSE W(1)]

\* The record of page n with k words: recognized text, or a failed page
\* when there is none.
PackPage(n, k) ==
    IF k = 0 THEN PageContent(n, EmptyStr, "ERROR")
    ELSE PageContent(n, WordsText(k), "OCR")

PackPages(ks) == [i \in 1..Len(ks) |-> PackPage(i, ks[i])]

\* Page sequences by their word counts, with limits: every short sequence
\* under every limit, four pages of 1000 words under the default limits,
\* and twelve pages of 100 words under a word limit of 100000.
PackInputs ==
    {[words |-> ks, max_words |-> mw, max_pages |-> mp] :
        ks \in UNION {[1..n -> 0..MaxLimit] : n \in 0..MaxPackPages},
        mw \in Limits, mp \in Limits}
    \cup {[words |-> [i \in 1..4 |-> 1000],
           max_words |-> DefaultMaxWords, max_pages |-> DefaultMaxPages],
          [words |-> [i \in 1..12 |-> 100],
           max_words |-> 100000, max_pages |-> DefaultMaxPages]}

\* The state in which run calls create_chunks, line 307.
InitPack ==
    \E input \in PackInputs :
        /\ pdf = [exists |-> TRUE, is_file |-> TRUE, parseable |-> TRUE]
        /\ dirs = OutputDirs
        /\ max_words = input.max_words
        /\ max_pages = input.max_pages
        /\ pc = "extract"
        /\ reader = "open"
        /\ pages_content = PackPages(input.words)
        /\ page_num = Len(input.words)
        /\ stats = [total_pages |-> Len(input.words),
                    text_pages |-> 0,
                    ocr_pages |-> Cardinality({i \in 1..Len(input.words) :
                                                 input.words[i] > 0}),
                    total_chunks |-> 0]
        /\ lastCall = NoCall
        /\ chunks = <<>>
        /\ chunk_index = 0
        /\ files = <<>>
        /\ log_file = [written |-> FALSE, rows |-> <<>>]
        /\ success = "unset"
        /\ exit_status = 0 - 1

NextPack == CreateChunks

SpecPack == InitPack /\ [][NextPack]_vars

\* ------------------------------------------- write_chunk_file alone ----
\* Chunk ordinals and page numbers around the padding width.
NameNumbers == (1..MaxNameNumber) \cup {99, 100, 999, 1000}

\* A page of a chunk handed to write_chunk_file: a TEXT page or a page
\* whose recovery failed.
NamePages(n) ==
    {PageContent(n, strip(PaddedExact), "TEXT"),
     PageContent(n, EmptyStr, "ERROR")}

\* Chunks of one page and of two consecutive pages, and the chunk of
\* pages 3 to 7.
NameChunks ==
    UNION {{<<p>> : p \in NamePages(n)} : n \in NameNumbers}
    \cup UNION {{<<p, PageContent(n + 1, EmptyStr, "OCR")>> : p \in NamePages(n)}
                  : n \in NameNumbers}
    \cup {[i \in 1..5 |-> PageContent(i + 2, EmptyStr, "OCR")]}

InitNames ==
    /\ pdf = [exists |-> TRUE, is_file |-> TRUE, parseable |-> TRUE]
    /\ dirs = OutputDirs
    /\ max_words = 1
    /\ max_pages = 1
    /\ pc = "write"
    /\ reader = "open"
    /\ stats = [total_pages |-> 0, text_pages |-> 0, ocr_pages |-> 0,
                total_chunks |-> 0]
    /\ page_num = 0
    /\ pages_content = <<>>
    /\ lastCall = NoCall
    /\ chunks = <<>>
    /\ chunk_index = 0
    /\ files = <<>>
    /\ log_file = [written |-> FALSE, rows |-> <<>>]
    /\ success = "unset"
    /\ exit_status = 0 - 1

\* write_chunk_file, lines 228-262, called with any ordinal and any chunk;
\* chunks keeps the chunks it was called with.
WriteAnyChunk ==
    /\ Len(files) < 2
    /\ \E n \in NameNumbers, chunk_pages \in NameChunks :
          /\ files' = Append(files, write_chunk_file(n - 1, chunk_pages))
          /\ chunks' = Append(chunks, chunk_pages)
    /\ UNCHANGED <<pdf, dirs, reader, max_words, max_pages, pc, stats,
                   page_num, pages_content, lastCall, chunk_index, log_file,
                   success, exit_status>>

NextNames == WriteAnyChunk

SpecNames == InitNames /\ [][NextNames]_vars

\* ------------------------------------------------------------ claims ----
RECURSIVE Flatten(_)
Flatten(cs) == IF cs = <<>> THEN <<>> ELSE Head(cs) \o Flatten(Tail(cs))

RECURSIVE ChunkWords(_)
ChunkWords(chunk) ==
    IF chunk = <<>> THEN 0
    ELSE SplitCount(Head(chunk).text, FALSE) + ChunkWords(Tail(chunk))

\* create_chunks has returned and its result is in chunks.
Packed == pc \in {"write", "summary"} \/ success = "True"

PositiveLimits == max_words >= 1 /\ max_pages >= 1

\* C1: for positive max_words and max_pages, the chunks returned by
\* create_chunks, concatenated in chunk order, are exactly the page sequence
\* it was given: no page lost, duplicated or moved.
C1_ChunksPartitionPages ==
    (Packed /\ PositiveLimits) => Flatten(chunks) = pages_content

\* A packing of three pages into two chunks, one of them of two pages.
C1_Witness ==
    /\ Packed /\ PositiveLimits
    /\ Len(pages_content) = 3
    /\ Len(chunks) = 2
    /\ \E i \in 1..Len(chunks) : Len(chunks[i]) = 2

\* C2: no chunk returned by create_chunks holds more than max_pages pages
\* (max_pages positive); zero-word pages, ERROR pages included, count.
C2_PageCeiling ==
    (Packed /\ max_pages >= 1) =>
        \A i \in 1..Len(chunks) : Len(chunks[i]) <= max_pages

\* A chunk closed by the page ceiling alone: it is full, it holds an ERROR
\* page, and the page that follows it would have fitted the word ceiling.
C2_Witness ==
    /\ Packed /\ max_pages >= 2
    /\ Len(chunks) >= 2
    /\ Len(chunks[1]) = max_pages
    /\ \E j \in 1..Len(chunks[1]) : chunks[1][j].source_type = "ERROR"
    /\ ChunkWords(chunks[1]) + ChunkWords(<<chunks[2][1]>>) <= max_words

\* C3: every chunk's word count is at most max_words, unless the chunk is a
\* single page whose own word count exceeds max_words.
C3_WordCeiling ==
    Packed =>
        \A i \in 1..Len(chunks) :
            \/ ChunkWords(chunks[i]) <= max_words
            \/ /\ Len(chunks[i]) = 1
               /\ ChunkWords(<<chunks[i][1]>>) > max_words

\* One run with a single oversized page in a chunk of its own and a chunk of
\* two pages that fills the word ceiling exactly.
C3_Witness ==
    /\ Packed /\ PositiveLimits
    /\ \E i \in 1..Len(chunks) :
          Len(chunks[i]) = 1 /\ ChunkWords(chunks[i]) > max_words
    /\ \E i \in 1..Len(chunks) :
          Len(chunks[i]) = 2 /\ ChunkWords(chunks[i]) = max_words

\* The record of the page extract_text_from_page handled last.
LastPage == pages_content[Len(pages_content)]

\* Direct extraction of the last page returned a text whose trimmed length
\* reaches the threshold.
LastDirectUsable ==
    /\ lastCall.extract.kind = "text"
    /\ StrLen(strip(lastCall.extract.text)) >= MinUsableChars

\* Direct extraction of the last page raised or returned too little.
LastDirectUnusable ==
    \/ lastCall.extract.kind \in {"raise", "None"}
    \/ /\ lastCall.extract.kind = "text"
       /\ StrLen(strip(lastCall.extract.text)) < MinUsableChars

\* The rasterizer and the recognizer both delivered in this _ocr_page call
\* (an empty image list is delivered without recognition).
Recognized(o) ==
    \/ o.raster = "empty"
    \/ o.raster = "image" /\ o.recog = "text"

\* C4: when direct extraction succeeds with at least 40 characters after
\* trimming, the record is TEXT, its text is the trimmed extracted text, and
\* _ocr_page is not called for the page.
C4_TextPassThrough ==
    (pages_content # <<>> /\ LastDirectUsable) =>
        /\ LastPage.source_type = "TEXT"
        /\ LastPage.text = strip(lastCall.extract.text)
        /\ lastCall.ocr = <<>>

\* A TEXT page whose extracted text had to be trimmed.
C4_Witness ==
    /\ pages_content # <<>>
    /\ LastDirectUsable
    /\ LastPage.source_type = "TEXT"
    /\ lastCall.extract.text # LastPage.text
    /\ StrLen(LastPage.text) = MinUsableChars

\* C5: when direct extraction raises or yields fewer than 40 characters
\* after trimming, _ocr_page is called, and the record is OCR if the
\* fallback's last call delivered, ERROR with empty text if it failed.
C5_FallbackClassification ==
    (pages_content # <<>> /\ LastDirectUnusable) =>
        /\ lastCall.ocr # <<>>
        /\ Recognized(lastCall.ocr[Len(lastCall.ocr)]) =>
              LastPage.source_type = "OCR"
        /\ ~Recognized(lastCall.ocr[Len(lastCall.ocr)]) =>
              /\ LastPage.source_type = "ERROR"
              /\ LastPage.text = EmptyStr

\* A short extracted text whose recognition failed, after an earlier page
\* whose extraction raised and whose recognition delivered text.
C5_Witness ==
    /\ Len(pages_content) >= 2
    /\ lastCall.extract.kind = "text"
    /\ LastDirectUnusable
    /\ LastPage.source_type = "ERROR"
    /\ pages_content[Len(pages_content) - 1].source_type = "OCR"
    /\ pages_content[Len(pages_content) - 1].text # EmptyStr

\* C6 as stated: a page record's text is empty only if its source is ERROR.
C6_EmptyOnlyIfError ==
    \A i \in 1..Len(pages_content) :
        pages_content[i].text = EmptyStr =>
            pages_content[i].source_type = "ERROR"

\* C6, amended: a page record's text is empty only if its source is ERROR or
\* OCR; a record with source TEXT always has non-empty text.
C6_EmptyOnlyIfErrorOrOcr ==
    \A i \in 1..Len(pages_content) :
        pages_content[i].text = EmptyStr =>
            pages_content[i].source_type \in {"ERROR", "OCR"}

\* An OCR record with empty text next to a TEXT record, the extraction of
\* the last page having returned only whitespace.
C6_Witness ==
    /\ Len(pages_content) >= 2
    /\ lastCall.extract.kind = "text"
    /\ strip(lastCall.extract.text) = EmptyStr
    /\ LastPage.source_type = "OCR"
    /\ LastPage.text = EmptyStr
    /\ pages_content[1].source_type = "TEXT"

\* C7: extract_text_from_page calls _ocr_page at most once for a page.
C7_SingleFallbackAttempt == Len(lastCall.ocr) <= 1

\* The limits of this run are not both positive.
NonPositiveLimit == max_words <= 0 \/ max_pages <= 0

\* C8: a run with max_words <= 0 or max_pages <= 0 is rejected: no chunk is
\* packed or written and the run does not end with success.
C8_NonPositiveLimitRejected ==
    NonPositiveLimit =>
        /\ stats.total_chunks = 0
        /\ files = <<>>
        /\ success # "True"
        /\ exit_status # 0

\* C9: the records of the extraction pass carry the page numbers 1, 2, ...
\* in order, there are exactly total_pages of them when the pass ends, no
\* run is aborted once the document is open, and a run that returns has
\* packed, written every chunk and the log, and succeeded.
C9_NoPageDropped ==
    /\ \A i \in 1..Len(pages_content) : pages_content[i].page_num = i
    /\ Len(pages_content) <= stats.total_pages
    /\ Packed => Len(pages_content) = stats.total_pages
    /\ reader = "open" => success # "False"
    /\ (reader = "open" /\ pc \in {"returned", "exited"}) =>
          /\ success = "True"
          /\ Packed
          /\ Len(files) = Len(chunks)
          /\ log_file.written

\* A finished run over three pages with an ERROR page in the middle.
C9_Witness ==
    /\ pc = "exited"
    /\ success = "True"
    /\ stats.total_pages = 3
    /\ pages_content[2].source_type = "ERROR"
    /\ pages_content[3].source_type # "ERROR"
    /\ log_file.written

\* The run aborted: validation refused the document, or opening it for the
\* extraction pass raised.
Aborted ==
    \/ ~(pdf.exists /\ pdf.is_file /\ pdf.parseable)
    \/ reader = "raise"

\* C10: the exit status is 1 exactly when the run aborted and 0 when it
\* completed, and a failed validation stops the run before any page is
\* extracted.
C10_ExitStatus ==
    /\ pc = "exited" =>
          /\ exit_status \in {0, 1}
          /\ exit_status = 1 <=> Aborted
          /\ exit_status = 0 <=> (Packed /\ log_file.written)
    /\ ~(pdf.exists /\ pdf.is_file /\ pdf.parseable) =>
          /\ reader = "unopened"
          /\ pages_content = <<>>
          /\ lastCall = NoCall
          /\ pc \in {"construct", "validate", "returned", "exited"}

\* An exit with status 1 after the open for the extraction pass raised.
C10_Witness ==
    /\ pc = "exited"
    /\ exit_status = 1
    /\ reader = "raise"

\* C11: the phases of a run happen in order, without interleaving:
\* validation, then the extraction of every page in page order, then
\* packing, then the writing of every chunk in chunk order, then the audit
\* log, then the final report; the output directories exist before any
\* write.
C11_PhaseOrder ==
    [][ /\ pc = "validate" =>
              /\ pages_content = <<>> /\ reader = "unopened"
              /\ files = <<>> /\ ~log_file.written
        /\ pages_content' # pages_content =>
              /\ pc = "extract" /\ reader = "open"
              /\ pdf.exists /\ pdf.is_file /\ pdf.parseable
              /\ Len(pages_content') = Len(pages_content) + 1
              /\ SubSeq(pages_content', 1, Len(pages_content)) = pages_content
              /\ pages_content'[Len(pages_content')].page_num
                    = Len(pages_content) + 1
              /\ chunks = <<>> /\ files = <<>> /\ ~log_file.written
        /\ (pc = "extract" /\ pc' # "extract") =>
              /\ Len(pages_content) = stats.total_pages
              /\ pc' = "write"
              /\ files = <<>> /\ ~log_file.written
        /\ chunks' # chunks => (pc = "extract" /\ pc' = "write")
        /\ files' # files =>
              /\ pc = "write" /\ pc' = "write"
              /\ OutputDirs \subseteq dirs
              /\ ~log_file.written
              /\ Len(files) < Len(chunks)
              /\ files' = Append(files, files'[Len(files')])
              /\ files'[Len(files')].chunk_id = Len(files) + 1
              /\ files'[Len(files')].markers
                    = PageMarkers(chunks[Len(files) + 1])
        /\ log_file' # log_file =>
              /\ pc = "write" /\ pc' = "summary"
              /\ OutputDirs \subseteq dirs
              /\ ~log_file.written /\ log_file'.written
              /\ Len(files) = Len(chunks)
              /\ files' = files
        /\ success' = "True" =>
              /\ log_file.written
              /\ pc \in {"summary", "returned", "exited"}
              /\ files' = files /\ log_file' = log_file
      ]_vars

\* The end of a run that extracted three pages, wrote two chunk files and
\* then the log.
C11_Witness ==
    /\ pc = "exited" /\ success = "True"
    /\ Len(pages_content) = 3
    /\ Len(files) = 2
    /\ log_file.written
    /\ OutputDirs \subseteq dirs

\* C12: the audit log holds exactly one data row for each page record, in
\* page order, each with that page's number and its source (TEXT, OCR or
\* ERROR); the row count is the total page count.
C12_LogRowPerPage ==
    log_file.written =>
        /\ Len(log_file.rows) = stats.total_pages
        /\ Len(log_file.rows) = Len(pages_content)
        /\ \A i \in 1..Len(log_file.rows) :
              /\ log_file.rows[i].page_num = i
              /\ log_file.rows[i].page_num = pages_content[i].page_num
              /\ log_file.rows[i].source_type = pages_content[i].source_type
              /\ log_file.rows[i].source_type \in {"TEXT", "OCR", "ERROR"}

\* A log of three rows, one of each source, the ERROR page first.
C12_Witness ==
    /\ log_file.written
    /\ Len(log_file.rows) = 3
    /\ log_file.rows[1].source_type = "ERROR"
    /\ log_file.rows[2].source_type = "OCR"
    /\ log_file.rows[3].source_type = "TEXT"

\* The chunk ordinal, start page and end page write_chunk_file was called
\* with for the i-th file.
NameTriple(i) ==
    <<files[i].chunk_id, chunks[i][1].page_num,
      chunks[i][Len(chunks[i])].page_num>>

\* C13: the chunk filename is a lossless function of (chunk ordinal, start
\* page, end page): two files have the same name exactly when they have the
\* same triple, whatever the pages hold; chunk 1 of pages 3 to 7 is named
\* chunk_001_p003-p007.md.
C13_FilenameLossless ==
    /\ Len(files) = Len(chunks)
    /\ \A i \in 1..Len(files) : \A j \in 1..Len(files) :
          files[i].filename = files[j].filename <=> NameTriple(i) = NameTriple(j)
    /\ \A i \in 1..Len(files) :
          NameTriple(i) = <<1, 3, 7>> =>
              files[i].filename =
                  <<"chunk_", "0", "0", "1", "_p", "0", "0", "3",
                    "-p", "0", "0", "7", ".md">>

\* Chunk 1 of pages 3 to 7 next to chunk 1 of pages 3 to 4, under different
\* names.
C13_Witness ==
    /\ Len(files) = 2
    /\ NameTriple(1) = <<1, 3, 7>>
    /\ NameTriple(2) = <<1, 3, 4>>
    /\ files[1].filename # files[2].filename

\* C14: a call of create_chunks leaves the page records, the limits and the
\* page counters as they were (run then sets total_chunks), and
\* create_chunks run again on the page records and limits found after the
\* call, then or later in the run, gives the chunks of the first call.
C14_CreateChunksPure ==
    /\ [][ (pc = "extract" /\ pc' = "write") =>
              /\ pages_content' = pages_content
              /\ max_words' = max_words
              /\ max_pages' = max_pages
              /\ stats' = [stats EXCEPT !.total_chunks = Len(chunks')]
              /\ create_chunks(pages_content', max_words', max_pages') = chunks'
         ]_vars
    /\ [](Packed => create_chunks(pages_content, max_words, max_pages) = chunks)

\* The state right after a call that packed three pages into two chunks.
C14_Witness ==
    /\ pc = "write" /\ chunk_index = 0 /\ files = <<>>
    /\ Len(pages_content) = 3
    /\ Len(chunks) = 2
    /\ stats.text_pages >= 1

\* C15: create_chunks returns no empty chunk, whatever the pages and the
\* limits, zero-word pages included, and it returns no chunk at all for the
\* empty page sequence, for which no chunk file is written.
C15_NoEmptyChunk ==
    Packed =>
        /\ \A i \in 1..Len(chunks) : Len(chunks[i]) >= 1
        /\ pages_content = <<>> => (chunks = <<>> /\ files = <<>>)
        /\ pages_content # <<>> => chunks # <<>>

\* A packing under positive limits in which a page larger than max_words
\* opens the first chunk and a later chunk holds zero-word pages only.
C15_Witness ==
    /\ Packed /\ PositiveLimits
    /\ Len(chunks) >= 2
    /\ ChunkWords(<<chunks[1][1]>>) > max_words
    /\ \E i \in 2..Len(chunks) : ChunkWords(chunks[i]) = 0

\* The page numbers of each chunk, and the word count of each page.
ChunkPageNumbers == [i \in 1..Len(chunks) |-> PageMarkers(chunks[i])]
PageWordCounts ==
    [i \in 1..Len(pages_content) |-> SplitCount(pages_content[i].text, FALSE)]

\* C16: the packer is greedy: a chunk ends only where it is full (it holds
\* max_pages pages) or where the next page would take it over max_words.
\* So four pages of 1000 words under max_words 3500 and max_pages 10 give
\* the chunks [p1,p2,p3] and [p4], and twelve pages of 100 words under
\* max_pages 10 give chunks of 10 and 2 pages.
C16_GreedyBoundaries ==
    Packed =>
        /\ \A i \in 1..(Len(chunks) - 1) :
              \/ Len(chunks[i]) >= max_pages
              \/ ChunkWords(chunks[i]) + ChunkWords(<<chunks[i + 1][1]>>)
                    > max_words
        /\ (/\ PageWordCounts = <<1000, 1000, 1000, 1000>>
            /\ max_words = 3500 /\ max_pages = 10)
              => ChunkPageNumbers = <<(<<1, 2, 3>>), (<<4>>)>>
        /\ (/\ PageWordCounts = [i \in 1..12 |-> 100]
            /\ max_words = 100000 /\ max_pages = 10)
              => ChunkPageNumbers =
                    <<[i \in 1..10 |-> i], (<<11, 12>>)>>

\* The four pages of 1000 words, packed under the default limits.
C16_Witness ==
    /\ Packed
    /\ Len(pages_content) = 4
    /\ ChunkWords(pages_content) = 4000
    /\ max_words = 3500 /\ max_pages = 10
    /\ Len(chunks) = 2

\* C17: the page ranges of the chunk files tile 1..N: the ordinals are
\* 1, 2, ... without gaps, the first file starts at page 1, each later file
\* starts one page after the end of the one before, each file carries one
\* page marker for each page of its range, in order, its name carries the
\* same ordinal and range, and after a successful run over N >= 1 pages the
\* last file ends at page N.
C17_RangesTilePages ==
    /\ \A i \in 1..Len(files) :
          /\ files[i].chunk_id = i
          /\ files[i].start_page =
                (IF i = 1 THEN 1 ELSE files[i - 1].end_page + 1)
          /\ files[i].start_page <= files[i].end_page
          /\ files[i].markers =
                [k \in 1..(files[i].end_page - files[i].start_page + 1)
                    |-> files[i].start_page + k - 1]
          /\ files[i].filename =
                <<"chunk_">> \o Format03d(i)
                    \o <<"_p">> \o Format03d(files[i].start_page)
                    \o <<"-p">> \o Format03d(files[i].end_page) \o <<".md">>
    /\ (success = "True" /\ stats.total_pages >= 1) =>
          /\ files # <<>>
          /\ files[Len(files)].end_page = stats.total_pages

\* A successful run over three pages written as pages 1-2 and page 3.
C17_Witness ==
    /\ success = "True"
    /\ stats.total_pages = 3
    /\ Len(files) = 2
    /\ files[1].end_page = 2
    /\ files[2].start_page = 3

\* The number of page records with the given source.
SourceCount(source) ==
    Cardinality({i \in 1..Len(pages_content) :
                    pages_content[i].source_type = source})

\* C18: at the end of a successful run total_pages is the number of page
\* records, text_pages and ocr_pages are the numbers of TEXT and OCR
\* records, these two and the number of ERROR records add up to
\* total_pages, and total_chunks is the number of chunk files written;
\* during the extraction pass text_pages + ocr_pages never exceeds the
\* number of pages processed so far.
C18_StatisticsAccount ==
    /\ success = "True" =>
          /\ stats.total_pages = Len(pages_content)
          /\ stats.text_pages = SourceCount("TEXT")
          /\ stats.ocr_pages = SourceCount("OCR")
          /\ stats.text_pages + stats.ocr_pages + SourceCount("ERROR")
                = stats.total_pages
          /\ stats.total_chunks = Len(files)
    /\ pc = "extract" =>
          /\ stats.text_pages + stats.ocr_pages <= page_num
          /\ page_num = Len(pages_content)
          /\ page_num <= stats.total_pages

\* A successful run over a TEXT page, an OCR page and an ERROR page, written
\* as two chunk files.
C18_Witness ==
    /\ success = "True"
    /\ stats.total_pages = 3
    /\ stats.text_pages = 1
    /\ stats.ocr_pages = 1
    /\ SourceCount("ERROR") = 1
    /\ stats.total_chunks = 2
    /\ Len(files) = 2

\* The document did not pass validation, or opening it for the extraction
\* pass raised.
AbortedRun ==
    \/ ~(pdf.exists /\ pdf.is_file /\ pdf.parseable)
    \/ reader = "raise"
    \/ success = "False"

\* C19: a run that aborts at validation or in the extraction pass writes no
\* chunk file and no audit log; whatever is written is written after every
\* page has been extracted.
C19_AbortWritesNothing ==
    /\ AbortedRun => (files = <<>> /\ ~log_file.written)
    /\ (files # <<>> \/ log_file.written) =>
          /\ reader = "open"
          /\ Len(pages_content) = stats.total_pages
          /\ pc \in {"write", "summary", "returned", "exited"}

\* The exit of a run whose document passed validation and then could not be
\* opened for the extraction pass: nothing was written.
C19_Witness ==
    /\ pc = "exited"
    /\ pdf.parseable
    /\ reader = "raise"
    /\ success = "False"
    /\ files = <<>>
    /\ ~log_file.written

====
